---- MODULE Spec2Model ----
(***************************************************************************)
(* crypto-m2-analyzer (src/app.py): the analysis run of main().            *)
(*                                                                         *)
(* Dates are day numbers.  A data frame is a sequence of records, one per  *)
(* row, in row order.  A float cell that may be NaN is a sequence of       *)
(* length at most one: <<>> is NaN, <<v>> holds the value v.  Arithmetic   *)
(* is exact (rationals, no rounding): the interpolated driver level and    *)
(* its percent change are reduced fractions, a Pearson correlation is its  *)
(* sign together with its square as a reduced fraction.                    *)
(***************************************************************************)
EXTENDS Integers, Sequences, FiniteSets

VARIABLES
    pc,              \* position of the run inside main()
    data_source,     \* sidebar radio: "api" or "upload"
    max_lag,         \* sidebar slider "Max Lag Analysis (weeks)"
    zscore_window,   \* sidebar slider "Z-Score Window (days)"
    crypto_df,       \* target frame: rows [date, market_cap_billions]
    m2_df,           \* driver frame: raw rows, then the rows of calculate_m2_zscore
    loaded,          \* what the two loaders came back with
    merged,          \* analyze_lag: the joined, sorted frame
    lag_weeks,       \* analyze_lag: the loop variable of the sweep
    test_df,         \* analyze_lag: the shifted frame of the last lag tested
    correlations,    \* analyze_lag: the candidate list
    result,          \* (best_lag, best_corr) once analyze_lag returned, else <<>>
    failure,         \* the exception that ended the run, else "none"
    chart,           \* create_chart: the frame the zone loop scanned
    positive_zones,  \* create_chart: expansion zones, in the order appended
    negative_zones,  \* create_chart: contraction zones, in the order appended
    calls            \* the functions of the pipeline invoked so far in this run

vars == <<pc, data_source, max_lag, zscore_window, crypto_df, m2_df, loaded,
          merged, lag_weeks, test_df, correlations, result, failure, chart,
          positive_zones, negative_zones, calls>>

(***************************************************************************)
(* Program constants.                                                      *)
(***************************************************************************)
MinRows == 30
RollingWindow == 252
MinPeriods == 90
SmoothWindow == 90
DaysPerWeek == 7

(***************************************************************************)
(* Bounds of the model.                                                    *)
(***************************************************************************)
MaxLagWeeks == 2
MaxWindow == 2
ExtraRows == 2
MaxLevel == 2

(***************************************************************************)
(* Cells and exact fractions.                                              *)
(***************************************************************************)
NaN == <<>>
IsNaN(c) == c = <<>>
Cell(v) == <<v>>
Num(c) == c[1]

Abs(x) == IF x < 0 THEN -x ELSE x
Sign(x) == IF x < 0 THEN -1 ELSE IF x > 0 THEN 1 ELSE 0
Min(a, b) == IF a < b THEN a ELSE b
Max(a, b) == IF a > b THEN a ELSE b

RECURSIVE GCD(_, _)
GCD(a, b) == IF b = 0 THEN a ELSE GCD(b, a % b)

\* the fraction n/d (d # 0) in lowest terms with a positive denominator
Frac(n, d) ==
    LET g == GCD(Abs(n), Abs(d))
        s == IF d < 0 THEN -1 ELSE 1
    IN  [num |-> s * (n \div g), den |-> s * (d \div g)]

SeqSum(s) ==
    LET RECURSIVE Go(_)
        Go(i) == IF i = 0 THEN 0 ELSE s[i] + Go(i - 1)
    IN  Go(Len(s))

Range(s) == {s[i] : i \in DOMAIN s}

(***************************************************************************)
(* calculate_m2_zscore (lines 93-104).                                     *)
(***************************************************************************)
\* line 95: set_index('date').resample('D').interpolate().reset_index():
\* one row per calendar day from the first to the last date, the level on a
\* day without an observation interpolated linearly between its neighbours.
\* A frame with a single dated row comes back as that single row.
Resample(df) ==
    IF df = <<>> THEN <<>>
    ELSE
    LET rows == Range(df)
        lo == CHOOSE d \in {r.date : r \in rows} : \A r \in rows : d <= r.date
        hi == CHOOSE d \in {r.date : r \in rows} : \A r \in rows : d >= r.date
        Before(d) == CHOOSE p \in rows :
                        /\ p.date <= d
                        /\ \A q \in rows : q.date <= d => q.date <= p.date
        After(d) == CHOOSE n \in rows :
                        /\ n.date >= d
                        /\ \A q \in rows : q.date >= d => q.date >= n.date
        Level(d) ==
            LET p == Before(d)
                n == After(d)
            IN  IF p.date = n.date THEN Frac(p.m2_billions, 1)
                ELSE Frac(p.m2_billions * (n.date - d) + n.m2_billions * (d - p.date),
                          n.date - p.date)
    IN  [i \in 1..(hi - lo + 1) |->
            [date |-> lo + i - 1, m2_billions |-> Level(lo + i - 1)]]

\* line 96: pct_change(periods=window) * 100 of the level column: NaN on the
\* first `window` rows, else 100 * (v[i] - v[i-window]) / v[i-window].
PctChange(level, window) ==
    [i \in DOMAIN level |->
        IF i <= window THEN NaN
        ELSE LET a == level[i]
                 b == level[i - window]
             IN  Cell(Frac(100 * (a.num * b.den - b.num * a.den), b.num * a.den))]

\* lines 98-99: the rows of the trailing window rolling(window=252) ending at
\* row i that hold a value (rolling skips NaN observations).
WindowObs(pct, i) ==
    {j \in Max(1, i - RollingWindow + 1)..i : ~IsNaN(pct[j])}

\* lines 98-99: min_periods=90: mean and std are NaN below that count.
RollingDefined(pct, i) == Cardinality(WindowObs(pct, i)) >= MinPeriods

\* line 99: the sample standard deviation of the window is 0 exactly when
\* all its observations are equal (row i itself is one of them).
RollingStdZero(pct, i) ==
    \A j \in WindowObs(pct, i) : pct[j] = pct[i]

\* line 101: (pct - rolling_mean) / rolling_std is NaN when an operand is
\* NaN and when it is 0/0 (std 0: the row's own value is the window's common
\* value, so the numerator is 0 too); otherwise it is a finite real.
QuotientIsNaN(pct, i) ==
    \/ IsNaN(pct[i])
    \/ ~RollingDefined(pct, i)
    \/ RollingStdZero(pct, i)

\* line 101, per row: TRUE where the quotient is NaN
QuotientNaNs(pct) == [i \in DOMAIN pct |-> QuotientIsNaN(pct, i)]

FiniteRows(nans) == {i \in DOMAIN nans : ~nans[i]}

\* line 101: the z-score column before fillna.  A finite quotient is a real
\* the integers do not carry exactly: q gives the value drawn for each row
\* whose quotient is finite.
ZScoreColumn(nans, q) ==
    [i \in DOMAIN nans |-> IF nans[i] THEN NaN ELSE Cell(q[i])]

FillNaKeepsNaN(col) == col

\* line 102: fillna(0)
FillNa(col) == [i \in DOMAIN col |-> IF IsNaN(col[i]) THEN Cell(0) ELSE col[i]]

\* the values a finite quotient is drawn from
ZValues == {-1, 0, 1}

\* lines 96-104: the returned frame, from the resampled rows rs, their
\* percent change pct and the z-score column z
ZScoreFrame(rs, pct, z) ==
    [i \in DOMAIN rs |->
        [date |-> rs[i].date, m2_billions |-> rs[i].m2_billions,
         m2_pct_change_3m |-> pct[i], m2_zscore |-> z[i]]]

\* main line 321 calling calculate_m2_zscore (lines 93-104)
CalculateM2Zscore ==
    /\ pc = "zscore"
    /\ \E rs \in {Resample(m2_df)} :
       \E pct \in {PctChange([i \in DOMAIN rs |-> rs[i].m2_billions], zscore_window)} :
       \E nans \in {QuotientNaNs(pct)} :
       \E q \in [FiniteRows(nans) -> ZValues] :
           m2_df' = ZScoreFrame(rs, pct, FillNa(ZScoreColumn(nans, q)))
    /\ calls' = calls \cup {"calculate_m2_zscore"}
    /\ pc' = "analyze"
    /\ UNCHANGED <<data_source, max_lag, zscore_window, crypto_df, loaded, merged,
                   lag_weeks, test_df, correlations, result, failure, chart,
                   positive_zones, negative_zones>>

(***************************************************************************)
(* analyze_lag (lines 106-123).                                            *)
(***************************************************************************)
\* lines 108, 162: pd.merge(left, right[['date', 'm2_zscore']], on='date',
\* how='inner'): the left rows, in left order, whose date the right frame
\* holds, each with the right row's z-score (right dates are unique: the
\* right frame is the daily grid of calculate_m2_zscore).
Merge(left, right) ==
    LET dates == {right[j].date : j \in DOMAIN right}
        kept == SelectSeq(left, LAMBDA r : r.date \in dates)
    IN  [i \in DOMAIN kept |->
            [date |-> kept[i].date,
             market_cap_billions |-> kept[i].market_cap_billions,
             m2_zscore |->
                right[CHOOSE j \in DOMAIN right : right[j].date = kept[i].date].m2_zscore]]

\* lines 109, 162: dropna() on the joined frame
DropNa(rows) == SelectSeq(rows, LAMBDA r : ~IsNaN(r.m2_zscore))

IsSortedByDate(rows) ==
    \A i \in 1..(Len(rows) - 1) : rows[i].date <= rows[i + 1].date

\* line 109: sort_values('date'), stable
SortByDate(rows) ==
    IF IsSortedByDate(rows) THEN rows
    ELSE LET n == Len(rows)
             Rank(j) == Cardinality({k \in 1..n :
                            \/ rows[k].date < rows[j].date
                            \/ rows[k].date = rows[j].date /\ k < j})
         IN  [i \in 1..n |-> rows[CHOOSE j \in 1..n : Rank(j) = i - 1]]

\* lines 115, 165: Series.shift(k), k >= 0: row i takes the value of row
\* i - k, the first k rows take NaN
Shift(col, k) == [i \in DOMAIN col |-> IF i <= k THEN NaN ELSE col[i - k]]

\* line 113
LagDays(w) == w * DaysPerWeek

\* lines 113-116: test_df of the sweep at lag w
TestDf(mg, w) ==
    LET sh == Shift([i \in DOMAIN mg |-> mg[i].m2_zscore], LagDays(w))
        rows == [i \in DOMAIN mg |->
                    [date |-> mg[i].date,
                     market_cap_billions |-> mg[i].market_cap_billions,
                     m2_zscore |-> mg[i].m2_zscore,
                     m2_zscore_shifted |-> sh[i]]]
    IN  SelectSeq(rows, LAMBDA r : ~IsNaN(r.m2_zscore_shifted))

\* the Pearson coefficient of undefined value (a column of zero variance)
NaNCorr == [nan |-> TRUE, sgn |-> 0, sq |-> [num |-> 0, den |-> 1]]

\* line 119: Series.corr, Pearson: cov / sqrt(var_x * var_y), kept as its
\* sign and its square; NaN when either column has zero variance.
Corr(rows) ==
    LET n == Len(rows)
        x == [i \in 1..n |-> rows[i].market_cap_billions]
        y == [i \in 1..n |-> Num(rows[i].m2_zscore_shifted)]
        sx == SeqSum(x)
        sy == SeqSum(y)
        cov == n * SeqSum([i \in 1..n |-> x[i] * y[i]]) - sx * sy
        dx == n * SeqSum([i \in 1..n |-> x[i] * x[i]]) - sx * sx
        dy == n * SeqSum([i \in 1..n |-> y[i] * y[i]]) - sy * sy
    IN  IF dx = 0 \/ dy = 0 THEN NaNCorr
        ELSE [nan |-> FALSE, sgn |-> Sign(cov), sq |-> Frac(cov * cov, dx * dy)]

\* a/b < c/d for a, c >= 0 and b, d > 0, by continued fractions
RECURSIVE FracLess(_, _, _, _)
FracLess(a, b, c, d) ==
    IF a \div b # c \div d THEN a \div b < c \div d
    ELSE IF c % d = 0 THEN FALSE
    ELSE IF a % b = 0 THEN TRUE
    ELSE \E t \in {<<d, c % d, b, a % b>>} : FracLess(t[1], t[2], t[3], t[4])

EnoughRowsInclusive(rows) == Len(rows) >= MinRows

\* line 118: the test of the sweep
EnoughRows(rows) == Len(rows) > MinRows

\* lines 118-120: one pass of the sweep's body on candidate list cs
SweepStep(mg, w, cs) ==
    LET t == TestDf(mg, w)
    IN  IF EnoughRows(t) THEN Append(cs, [lag_weeks |-> w, corr |-> Corr(t)])
        ELSE cs

\* lines 111-120: the candidate list after lags 0..w
RECURSIVE Sweep(_, _)
Sweep(mg, w) ==
    IF w < 0 THEN <<>>
    ELSE CHOOSE r \in {SweepStep(mg, w, cs) : cs \in {Sweep(mg, w - 1)}} : TRUE

AbsGreaterOrEqual(a, b) ==
    /\ ~a.nan
    /\ ~b.nan
    /\ ~FracLess(a.sq.num, a.sq.den, b.sq.num, b.sq.den)

\* line 122, the key's order: abs(a) > abs(b) as Python evaluates it, False
\* when either side is NaN
AbsGreater(a, b) ==
    /\ ~a.nan
    /\ ~b.nan
    /\ FracLess(b.sq.num, b.sq.den, a.sq.num, a.sq.den)

\* line 122: max(correlations, key=lambda x: abs(x[1])) over the first i
\* candidates: the first one, replaced by each later one whose key is greater
RECURSIVE MaxByAbs(_, _)
MaxByAbs(cs, i) ==
    IF i = 1 THEN cs[1]
    ELSE CHOOSE r \in {IF AbsGreater(cs[i].corr, b.corr) THEN cs[i] ELSE b :
                        b \in {MaxByAbs(cs, i - 1)}} : TRUE

ValueError == "ValueError: max() arg is an empty sequence"

AnalyzeLagOutcomeDefault(cs) ==
    IF cs = <<>>
    THEN [raised |-> "none", returned |-> <<[lag_weeks |-> 0, corr |-> NaNCorr]>>]
    ELSE [raised |-> "none", returned |-> <<MaxByAbs(cs, Len(cs))>>]

\* lines 122-123: what analyze_lag ends with for candidate list cs
AnalyzeLagOutcome(cs) ==
    IF cs = <<>> THEN [raised |-> ValueError, returned |-> <<>>]
    ELSE [raised |-> "none", returned |-> <<MaxByAbs(cs, Len(cs))>>]

\* main line 324 entering analyze_lag: lines 108-111
AnalyzeLagMerge ==
    /\ pc = "analyze"
    /\ merged' = SortByDate(DropNa(Merge(crypto_df, m2_df)))
    /\ correlations' = <<>>
    /\ lag_weeks' = 0
    /\ calls' = calls \cup {"analyze_lag"}
    /\ pc' = "sweep"
    /\ UNCHANGED <<data_source, max_lag, zscore_window, crypto_df, m2_df, loaded,
                   test_df, result, failure, chart, positive_zones, negative_zones>>

\* lines 112-120: one iteration of the sweep
AnalyzeLagStep ==
    /\ pc = "sweep"
    /\ lag_weeks <= max_lag
    /\ test_df' = TestDf(merged, lag_weeks)
    /\ correlations' = SweepStep(merged, lag_weeks, correlations)
    /\ lag_weeks' = lag_weeks + 1
    /\ UNCHANGED <<pc, data_source, max_lag, zscore_window, crypto_df, m2_df, loaded,
                   merged, result, failure, chart, positive_zones, negative_zones,
                   calls>>

\* lines 122-123: the sweep is over; max() raises on an empty list, and main
\* does not catch it
AnalyzeLagSelect ==
    /\ pc = "sweep"
    /\ lag_weeks > max_lag
    /\ \E out \in {AnalyzeLagOutcome(correlations)} :
          /\ failure' = out.raised
          /\ result' = out.returned
          /\ pc' = IF out.raised = "none" THEN "display" ELSE "raised"
    /\ UNCHANGED <<data_source, max_lag, zscore_window, crypto_df, m2_df, loaded,
                   merged, lag_weeks, test_df, correlations, chart, positive_zones,
                   negative_zones, calls>>

\* main lines 327-341: the metrics and the key finding
DisplayMetrics ==
    /\ pc = "display"
    /\ calls' = calls \cup {"display"}
    /\ pc' = "chart"
    /\ UNCHANGED <<data_source, max_lag, zscore_window, crypto_df, m2_df, loaded,
                   merged, lag_weeks, test_df, correlations, result, failure, chart,
                   positive_zones, negative_zones>>

(***************************************************************************)
(* create_chart (lines 160-215).                                           *)
(***************************************************************************)
\* line 175: rolling(window=90, min_periods=1).mean(): the mean of the rows
\* of the trailing window, from the first row on
Smooth(col) ==
    [i \in DOMAIN col |->
        LET lo == Max(1, i - SmoothWindow + 1)
        IN  Frac(SeqSum([j \in 1..(i - lo + 1) |-> Num(col[lo + j - 1])]), i - lo + 1)]

\* lines 162-175: the frame the zone loop scans
ChartFrame(left, right, lag) ==
    LET mg == DropNa(Merge(left, right))
        sh == Shift([i \in DOMAIN mg |-> mg[i].m2_zscore], LagDays(lag))
        rows == [i \in DOMAIN mg |->
                    [date |-> mg[i].date,
                     market_cap_billions |-> mg[i].market_cap_billions,
                     m2_zscore_lagged |-> sh[i]]]
        kept == SelectSeq(rows, LAMBDA r : ~IsNaN(r.m2_zscore_lagged))
        sm == Smooth([i \in DOMAIN kept |-> kept[i].m2_zscore_lagged])
    IN  [i \in DOMAIN kept |->
            [date |-> kept[i].date,
             market_cap_billions |-> kept[i].market_cap_billions,
             m2_zscore_lagged |-> kept[i].m2_zscore_lagged,
             m2_smooth |-> sm[i]]]

IsPositiveOrZero(v) == v.num >= 0

\* line 185: m2_smooth > 0
IsPositive(v) == v.num > 0

\* lines 178-182: the loop's variables before the first row; <<>> is None
ZoneInit ==
    [current_zone_start |-> <<>>, current_zone_positive |-> <<>>,
     positive_zones |-> <<>>, negative_zones |-> <<>>]

\* lines 192-195, 203-206: append the finished zone to the list of its sign
CloseZone(st, zone_end) ==
    LET zone == [zone_start |-> st.current_zone_start[1], zone_end |-> zone_end]
    IN  IF st.current_zone_positive[1]
        THEN [st EXCEPT !.positive_zones = Append(@, zone)]
        ELSE [st EXCEPT !.negative_zones = Append(@, zone)]

\* lines 185-198: the body of the zone loop at row i
ZoneBody(rows, i, st) ==
    LET is_positive == IsPositive(rows[i].m2_smooth)
    IN  IF st.current_zone_start = <<>>
        THEN [st EXCEPT !.current_zone_start = <<rows[i].date>>,
                        !.current_zone_positive = <<is_positive>>]
        ELSE IF is_positive # st.current_zone_positive[1]
        THEN [CloseZone(st, rows[i - 1].date)
                EXCEPT !.current_zone_start = <<rows[i].date>>,
                       !.current_zone_positive = <<is_positive>>]
        ELSE st

\* lines 184-198: the loop's variables after rows 1..i
RECURSIVE ZoneLoop(_, _)
ZoneLoop(rows, i) ==
    IF i = 0 THEN ZoneInit
    ELSE CHOOSE r \in {ZoneBody(rows, i, st) : st \in {ZoneLoop(rows, i - 1)}} : TRUE

ZoneLastDropped(rows, st) == st

\* lines 200-206: add the last zone
ZoneLast(rows, st) ==
    IF st.current_zone_start # <<>> THEN CloseZone(st, rows[Len(rows)].date)
    ELSE st

\* main line 344 calling create_chart with the best lag (lines 160-215)
CreateChart ==
    /\ pc = "chart"
    /\ \E rows \in {ChartFrame(crypto_df, m2_df, result[1].lag_weeks)} :
       \E st \in {ZoneLast(rows, ZoneLoop(rows, Len(rows)))} :
          /\ chart' = rows
          /\ positive_zones' = st.positive_zones
          /\ negative_zones' = st.negative_zones
    /\ calls' = calls \cup {"create_chart"}
    /\ pc' = "done"
    /\ UNCHANGED <<data_source, max_lag, zscore_window, crypto_df, m2_df, loaded,
                   merged, lag_weeks, test_df, correlations, result, failure>>

(***************************************************************************)
(* The loaders and the start of main (lines 58-91, 125-158, 299-318).      *)
(***************************************************************************)
\* lines 58-91: what an HTTP fetch can end with
FetchOutcomes == {"ok", "raised", "timeout", "non200"}

\* lines 58-91: fetch_crypto_coingecko / fetch_m2_fred return the frame on
\* status 200; the bare except returns None, and a non-200 status falls off
\* the end of the function, which returns None too
FetchReturn(outcome, df) ==
    IF outcome = "ok" THEN [none |-> FALSE, df |-> df] ELSE [none |-> TRUE, df |-> <<>>]

\* lines 125-158: process_uploaded_data returns both frames, or (None, None)
\* when anything in it raised
ProcessReturn(outcome, c, m) ==
    IF outcome = "ok"
    THEN [crypto |-> [none |-> FALSE, df |-> c], m2 |-> [none |-> FALSE, df |-> m]]
    ELSE [crypto |-> [none |-> TRUE, df |-> <<>>], m2 |-> [none |-> TRUE, df |-> <<>>]]

ProceedsOnCryptoAlone(c, m) == ~c.none

\* lines 307, 317: crypto_df is None or m2_df is None -> return
Proceeds(c, m) == ~(c.none \/ m.none)

(***************************************************************************)
(* Input frames.                                                           *)
(***************************************************************************)
\* a raw driver frame of Len(vals) <= 3 observations: on day 0, then on day
\* n - 1, the third between them on day mid
DriverObs(n, mid, vals) ==
    LET k == Len(vals)
        Date(j) == IF j = 1 THEN 0 ELSE IF j = k THEN n - 1 ELSE mid
    IN  [j \in 1..k |-> [date |-> Date(j), m2_billions |-> vals[j]]]

Levels == 1..MaxLevel

\* a target frame: one row per day of first..last except the days of skip,
\* in ascending date order, the value of a day given by its week's entry
\* of the repeating pattern caps
TargetFrame(first, last, skip, caps) ==
    LET days == SelectSeq([i \in 1..(last - first + 1) |-> first + i - 1],
                          LAMBDA d : d \notin skip)
    IN  [i \in DOMAIN days |->
            [date |-> days[i],
             market_cap_billions |->
                caps[((days[i] \div DaysPerWeek) % Len(caps)) + 1]]]

\* a driver frame as calculate_m2_zscore returns it (the columns analyze_lag
\* and create_chart read): days 0..n-1, the z-score constant over blocks of
\* blk days, block by block the entries of the repeating pattern zs
ZFrame(n, blk, zs) ==
    [i \in 1..n |->
        [date |-> i - 1,
         m2_zscore |-> Cell(zs[(((i - 1) \div blk) % Len(zs)) + 1])]]

Fresh ==
    /\ loaded = [crypto |-> "pending", m2 |-> "pending"]
    /\ merged = <<>>
    /\ lag_weeks = 0
    /\ test_df = <<>>
    /\ correlations = <<>>
    /\ result = <<>>
    /\ failure = "none"
    /\ chart = <<>>
    /\ positive_zones = <<>>
    /\ negative_zones = <<>>
    /\ calls = {}

\* calculate_m2_zscore applied to driver frames long enough to leave the
\* warm-up of the rolling window
InitZ ==
    /\ pc = "zscore"
    /\ data_source = "api"
    /\ max_lag = 5
    /\ zscore_window \in 1..MaxWindow
    /\ crypto_df = <<>>
    /\ \E e \in -1..ExtraRows, k \in 1..3 :
       \E n \in {zscore_window + MinPeriods + e} :
       \E mid \in {n \div 2, n - 2}, vals \in [1..k -> Levels] :
            m2_df = DriverObs(n, mid, vals)
    /\ Fresh

NextZ == CalculateM2Zscore

SpecZ == InitZ /\ [][NextZ]_vars

(***************************************************************************)
(* The run of main from "Run Analysis" (line 299).                         *)
(***************************************************************************)
MainDays == MinRows + 3

\* what the target loader can hand over: 30 and 31 rows inside the driver's
\* range, a sparse frame, and a frame after the driver's last day
MainTargets ==
    {TargetFrame(0, MinRows - 1, {}, <<1, 2>>),
     TargetFrame(0, MinRows, {}, <<1, 2>>),
     TargetFrame(1, MainDays - 1, {4}, <<2, 1>>),
     TargetFrame(MainDays + 5, MainDays + 8, {}, <<1, 2>>)}

\* what the driver loader can hand over: a single observation, or 2 or 3
\* observations over MainDays days
MainDrivers ==
    {DriverObs(MainDays, MainDays \div 2, vals) :
        vals \in UNION {[1..k -> Levels] : k \in 1..3}}

\* lines 303-309: fetch both series, return when either is None
StartApi ==
    /\ pc = "start"
    /\ data_source = "api"
    /\ \E co \in FetchOutcomes, mo \in FetchOutcomes, c \in MainTargets, m \in MainDrivers :
       \E cr \in {FetchReturn(co, c)}, mr \in {FetchReturn(mo, m)} :
          /\ loaded' = [crypto |-> co, m2 |-> mo]
          /\ crypto_df' = IF Proceeds(cr, mr) THEN cr.df ELSE crypto_df
          /\ m2_df' = IF Proceeds(cr, mr) THEN mr.df ELSE m2_df
          /\ pc' = IF Proceeds(cr, mr) THEN "zscore" ELSE "returned"
    /\ calls' = calls \cup {"fetch_crypto_coingecko", "fetch_m2_fred"}
    /\ UNCHANGED <<data_source, max_lag, zscore_window, merged, lag_weeks, test_df,
                   correlations, result, failure, chart, positive_zones,
                   negative_zones>>

\* line 312: crypto_file is None or m2_file is None
FileMissing(crypto_file, m2_file) == ~crypto_file \/ ~m2_file

\* lines 311-318: without both files return at once; else process them and
\* return when either frame is None
StartUpload ==
    /\ pc = "start"
    /\ data_source = "upload"
    /\ \E crypto_file \in BOOLEAN, m2_file \in BOOLEAN, po \in {"ok", "raised"},
          c \in MainTargets, m \in MainDrivers :
       \E pr \in {ProcessReturn(po, c, m)} :
          IF FileMissing(crypto_file, m2_file)
          THEN /\ loaded' = [crypto |-> IF crypto_file THEN "unread" ELSE "missing",
                             m2 |-> IF m2_file THEN "unread" ELSE "missing"]
               /\ pc' = "returned"
               /\ UNCHANGED <<crypto_df, m2_df, calls>>
          ELSE /\ loaded' = [crypto |-> po, m2 |-> po]
               /\ calls' = calls \cup {"process_uploaded_data"}
               /\ crypto_df' = IF Proceeds(pr.crypto, pr.m2) THEN pr.crypto.df ELSE crypto_df
               /\ m2_df' = IF Proceeds(pr.crypto, pr.m2) THEN pr.m2.df ELSE m2_df
               /\ pc' = IF Proceeds(pr.crypto, pr.m2) THEN "zscore" ELSE "returned"
    /\ UNCHANGED <<data_source, max_lag, zscore_window, merged, lag_weeks, test_df,
                   correlations, result, failure, chart, positive_zones,
                   negative_zones>>

\* lines 278-299: the sidebar's settings when "Run Analysis" is pressed
Init ==
    /\ pc = "start"
    /\ data_source \in {"api", "upload"}
    /\ max_lag \in {5, 6}
    /\ zscore_window \in {60, 90}
    /\ crypto_df = <<>>
    /\ m2_df = <<>>
    /\ Fresh

Next ==
    \/ StartApi
    \/ StartUpload
    \/ CalculateM2Zscore
    \/ AnalyzeLagMerge
    \/ AnalyzeLagStep
    \/ AnalyzeLagSelect
    \/ DisplayMetrics
    \/ CreateChart

Spec == Init /\ [][Next]_vars

(***************************************************************************)
(* analyze_lag and create_chart applied to frames whose z-scores vary.     *)
(***************************************************************************)
CoreDays == MinRows + DaysPerWeek * MaxLagWeeks + 3

\* last days of the target: 31, 38, 42 and CoreDays rows, one less with a
\* day skipped
CoreLasts == {MinRows, MinRows + DaysPerWeek, 6 * DaysPerWeek - 1, CoreDays - 1}

CoreTargets ==
    {TargetFrame(0, last, skip, caps) :
        last \in CoreLasts, skip \in {{}, {3}}, caps \in [1..2 -> 0..MaxLevel]}

\* z-scores alternating week by week, or constant over the first CoreDays - 12
\* days
CoreDrivers ==
    {ZFrame(CoreDays, blk, zs) :
        blk \in {DaysPerWeek, CoreDays - 12}, zs \in [1..2 -> ZValues]}

InitCore ==
    /\ pc = "analyze"
    /\ data_source = "api"
    /\ max_lag \in 0..MaxLagWeeks
    /\ zscore_window = 90
    /\ crypto_df \in CoreTargets
    /\ m2_df \in CoreDrivers
    /\ Fresh

NextCore ==
    \/ AnalyzeLagMerge
    \/ AnalyzeLagStep
    \/ AnalyzeLagSelect
    \/ DisplayMetrics
    \/ CreateChart

SpecCore == InitCore /\ [][NextCore]_vars

(***************************************************************************)
(* The claims.                                                             *)
(***************************************************************************)
SameAbs(a, b) == (a.nan /\ b.nan) \/ (~a.nan /\ ~b.nan /\ a.sq = b.sq)

\* C1: once analyze_lag has returned, (best_lag, best_corr) is one of the
\* candidates of the sweep, sign included; its absolute correlation is
\* defined and at least that of every candidate whose correlation is defined
\* (an undefined, zero-variance correlation takes no part in the order); and
\* no candidate of the same absolute correlation has a smaller lag.
C1_BestMaximizesAbs ==
    result # <<>> =>
        LET best == result[1]
        IN  /\ \E i \in DOMAIN correlations : correlations[i] = best
            /\ \A i \in DOMAIN correlations :
                  ~correlations[i].corr.nan =>
                      /\ ~best.corr.nan
                      /\ ~FracLess(best.corr.sq.num, best.corr.sq.den,
                                   correlations[i].corr.sq.num,
                                   correlations[i].corr.sq.den)
            /\ \A i \in DOMAIN correlations :
                  SameAbs(correlations[i].corr, best.corr) =>
                      best.lag_weeks <= correlations[i].lag_weeks

\* C1 witness: a later lag won with a negative correlation, an earlier lag
\* of smaller absolute correlation and a candidate of undefined correlation
\* were passed over
C1_Witness ==
    /\ result # <<>>
    /\ result[1].lag_weeks > 0
    /\ result[1].corr.sgn = -1
    /\ \E i \in DOMAIN correlations : correlations[i].corr.nan

C1_WitnessTie ==
    /\ result # <<>>
    /\ \E i \in DOMAIN correlations :
          /\ ~correlations[i].corr.nan
          /\ correlations[i].lag_weeks > result[1].lag_weeks
          /\ correlations[i].corr.sq = result[1].corr.sq
          /\ correlations[i].corr.sgn # result[1].corr.sgn

\* C3: for every lag w the sweep has tested, a candidate for w is in the
\* list exactly when more than 30 rows remained after the shift by w; the
\* list is in strictly ascending lag order (so holds a lag at most once).
C3_CandidateIffEnoughRows ==
    "analyze_lag" \in calls =>
        /\ \A w \in 0..(lag_weeks - 1) :
              (\E i \in DOMAIN correlations : correlations[i].lag_weeks = w)
                  <=> Len(TestDf(merged, w)) > 30
        /\ \A i \in DOMAIN correlations :
              /\ correlations[i].lag_weeks \in 0..Min(lag_weeks - 1, max_lag)
              /\ \A j \in DOMAIN correlations :
                    i < j => correlations[i].lag_weeks < correlations[j].lag_weeks

\* C3 witness: the sweep is over, lag 1 was kept with exactly 31 rows left
C3_Witness ==
    /\ pc = "sweep"
    /\ lag_weeks > max_lag
    /\ Len(test_df) = 31
    /\ Len(correlations) >= 2
    /\ correlations[Len(correlations)].lag_weeks = lag_weeks - 1

C3_WitnessSkipped ==
    /\ pc = "sweep"
    /\ lag_weeks > max_lag
    /\ Len(test_df) = 30
    /\ Len(correlations) >= 1

\* C2: at the lag w the sweep has just tested, every row kept in test_df
\* with date t is paired with the z-score the joined frame holds for date
\* t - 7*w, and no row is kept whose date t - 7*w the joined frame lacks.
C2_ShiftIsCalendarDays ==
    (pc = "sweep" /\ lag_weeks >= 1) =>
        \A i \in DOMAIN test_df :
            \E j \in DOMAIN merged :
                /\ merged[j].date = test_df[i].date - 7 * (lag_weeks - 1)
                /\ merged[j].m2_zscore = test_df[i].m2_zscore_shifted

\* the zones of both lists, each with its classification and its place
Zones ==
    {[sign |-> "expansion", k |-> k, zone |-> positive_zones[k]] :
        k \in DOMAIN positive_zones}
    \cup {[sign |-> "contraction", k |-> k, zone |-> negative_zones[k]] :
        k \in DOMAIN negative_zones}

Inside(d, z) == z.zone.zone_start <= d /\ d <= z.zone.zone_end

\* C6: when create_chart has scanned a non-empty series, every date of the
\* series lies in exactly one zone (no gap, no overlap); a zone that does not
\* end at the last date is followed at the next date of the series by the
\* start of another zone; one zone starts at the first date and one ends at
\* the last date.
C6_ZonesPartitionSeries ==
    (pc = "done" /\ chart # <<>>) =>
        /\ \A i \in DOMAIN chart :
              Cardinality({z \in Zones : Inside(chart[i].date, z)}) = 1
        /\ \A z \in Zones : z.zone.zone_start <= z.zone.zone_end
        /\ \A i \in 1..(Len(chart) - 1) :
              (\E z \in Zones : z.zone.zone_end = chart[i].date) =>
                  (\E y \in Zones : y.zone.zone_start = chart[i + 1].date)
        /\ \E z \in Zones :
              /\ z.zone.zone_start = chart[1].date
              /\ \A y \in Zones : z.zone.zone_start <= y.zone.zone_start
        /\ \E z \in Zones :
              /\ z.zone.zone_end = chart[Len(chart)].date
              /\ \A y \in Zones : y.zone.zone_end <= z.zone.zone_end

\* C6 witness: several zones, the last one holding the last date alone
C6_Witness ==
    /\ pc = "done"
    /\ Cardinality(Zones) >= 3
    /\ \E z \in Zones :
          /\ z.zone.zone_start = chart[Len(chart)].date
          /\ z.zone.zone_end = chart[Len(chart)].date

\* C7: every date inside an expansion zone has a smoothed value > 0, every
\* date inside a contraction zone a smoothed value <= 0, and two zones that
\* follow each other in date order differ in classification.
C7_ZoneSigns ==
    pc = "done" =>
        /\ \A z \in Zones : \A i \in DOMAIN chart :
              Inside(chart[i].date, z) =>
                  IF z.sign = "expansion" THEN chart[i].m2_smooth.num > 0
                  ELSE chart[i].m2_smooth.num <= 0
        /\ \A z \in Zones : \A y \in Zones :
              (\E i \in 1..(Len(chart) - 1) :
                  /\ z.zone.zone_end = chart[i].date
                  /\ y.zone.zone_start = chart[i + 1].date)
              => z.sign # y.sign

\* C7 witness: a contraction zone holds a date whose smoothed value is
\* exactly 0 and is followed by an expansion zone
C7_Witness ==
    /\ pc = "done"
    /\ \E z \in Zones : \E y \in Zones : \E i \in 1..(Len(chart) - 1) :
          /\ z.sign = "contraction"
          /\ y.sign = "expansion"
          /\ z.zone.zone_end = chart[i].date
          /\ y.zone.zone_start = chart[i + 1].date
          /\ chart[i].m2_smooth.num = 0

\* every lag of the sweep leaves 30 or fewer rows of the joined frame
NoLagHasEnoughRows ==
    \A w \in 0..max_lag : Len(TestDf(merged, w)) <= 30

\* C4: when every lag leaves 30 or fewer aligned rows, analyze_lag never
\* returns a result: the run is inside the sweep or has ended with the
\* exception raised at line 122, and main has neither displayed a best lag
\* nor called create_chart.
C4_NoCandidateNoResult ==
    ("analyze_lag" \in calls /\ NoLagHasEnoughRows) =>
        /\ pc \in {"sweep", "raised"}
        /\ pc = "raised" <=> failure # "none"
        /\ result = <<>>
        /\ "display" \notin calls
        /\ "create_chart" \notin calls

\* C4 witness: the run ended with the exception on a joined frame of exactly
\* 30 rows
C4_Witness ==
    /\ pc = "raised"
    /\ failure = ValueError
    /\ Len(merged) = 30
    /\ NoLagHasEnoughRows

\* C5: the failure of a run whose join is empty differs from the failure of
\* any run whose join is non-empty but leaves every lag 30 or fewer rows
\* (the same driver and settings, another target).
C5_FailuresDistinct ==
    (pc = "raised" /\ merged = <<>>) =>
        \A c \in MainTargets :
        \A mg \in {SortByDate(DropNa(Merge(c, m2_df)))} :
            (mg # <<>> /\ Sweep(mg, max_lag) = <<>>) =>
                AnalyzeLagOutcome(Sweep(mg, max_lag)).raised # failure

\* a loader came back without a frame
LoaderFailed == loaded.crypto \notin {"pending", "ok"} \/ loaded.m2 \notin {"pending", "ok"}

\* C9: in a run where either loader failed, calculate_m2_zscore, analyze_lag
\* and create_chart are never invoked, and the run has returned.
C9_NoPartialData ==
    LoaderFailed =>
        /\ calls \cap {"calculate_m2_zscore", "analyze_lag", "create_chart"} = {}
        /\ pc = "returned"

\* C9 witness: the target was fetched and the driver fetch got a non-200
\* response
C9_Witness ==
    /\ loaded.crypto = "ok"
    /\ loaded.m2 = "non200"
    /\ pc = "returned"

\* C10: a driver series of fewer than two dated observations ends the run in
\* a failure inside calculate_m2_zscore: no normalized series comes back and
\* analyze_lag is not entered.
C10_InsufficientData ==
    ("calculate_m2_zscore" \in calls /\ Len(m2_df) < 2) =>
        /\ pc = "raised"
        /\ "analyze_lag" \notin calls

\* C8: in the frame calculate_m2_zscore returns, every row holds a z-score
\* (no NaN), and it is exactly 0 on every row whose lookback row does not
\* exist, whose trailing 252-row window holds fewer than 90 percent-change
\* observations, or whose window's observations are all equal (standard
\* deviation 0); so it is 0 on the first min(252, 90) - 1 rows.
C8_ZScoreDefinedAndNeutral ==
    "calculate_m2_zscore" \in calls =>
        \A i \in DOMAIN m2_df :
            LET obs == {j \in Max(1, i - 251)..i : m2_df[j].m2_pct_change_3m # <<>>}
            IN  /\ m2_df[i].m2_zscore # <<>>
                /\ (\/ i <= zscore_window
                    \/ Cardinality(obs) < 90
                    \/ \A j \in obs : \A k \in obs :
                          m2_df[j].m2_pct_change_3m = m2_df[k].m2_pct_change_3m
                    \/ i <= Min(252, 90) - 1)
                   => m2_df[i].m2_zscore = <<0>>

\* C8 witness: one frame holds a row zeroed for want of a lookback, a row
\* zeroed for a window of 90 equal observations, and a later row whose
\* z-score is not 0
C8_Witness ==
    /\ "calculate_m2_zscore" \in calls
    /\ \E i \in DOMAIN m2_df :
          /\ i > zscore_window
          /\ Cardinality({j \in 1..i : m2_df[j].m2_pct_change_3m # <<>>}) >= 90
          /\ \A j \in (zscore_window + 1)..i :
                m2_df[j].m2_pct_change_3m = m2_df[i].m2_pct_change_3m
          /\ m2_df[i].m2_zscore = <<0>>
    /\ m2_df[1].m2_zscore = <<0>>
    /\ \E i \in DOMAIN m2_df : m2_df[i].m2_zscore \notin {<<>>, <<0>>}
====
